---- MODULE Spec2Model ----
(***************************************************************************)
(* Model of the object API of the easegress admin server                   *)
(* (pkg/api/object.go): the handlers createObject, deleteObject,           *)
(* getObject, updateObject, listObjects, getStatusObject and               *)
(* listStatusObjects, run concurrently by the request goroutines Procs.        *)
(* A handler is cut into steps at every access to the shared registry, so  *)
(* that all interleavings of lock-free readers with the writers' critical  *)
(* sections are explored.                                                  *)
(*                                                                         *)
(* The Server's storage primitives (_getObject, _putObject, ...), its      *)
(* mutex, supervisor.Spec and HandleAPIError live in other files of the    *)
(* package; they are modelled after their description in the design        *)
(* document.                                                               *)
(***************************************************************************)
EXTENDS Integers, Sequences, FiniteSets, TLC

\* ------------------------------------------------------------------ bounds
MaxRequests == 3     \* requests served in one behaviour

Procs == {1, 2}      \* the goroutines serving requests concurrently
Names == {1, 2}      \* object names, ordered as the strings they stand for
Kinds == {"Pipeline", "Other"}
Datas == {"d0", "d1"}
StatusValues == {[state |-> "running"]}

\* ------------------------------------------------------------------ values
NoName == 0                       \* the empty string "" of ctx.Params().Get("name")
NoProc == 0                       \* the mutex is free
Nil == [nil |-> TRUE]             \* a nil *supervisor.Spec / absent status
ParseError == [err |-> "parse"]   \* supervisor.NewSpec failed

StatusOK == 200
StatusCreated == 201
StatusBadRequest == 400
StatusNotFound == 404
StatusConflict == 409

ObjectPrefix == "/objects"
YAMLType == "text/vnd.yaml"

\* ------------------------------------------------------------------ yaml
\* A yaml document is a sequence of <<key, value>> lines.  The canonical
\* form lists the keys in the order of CanonKeys.
CanonKeys == <<"name", "kind", "data">>

HasKey(doc, k) == \E i \in 1..Len(doc) : doc[i][1] = k

Val(doc, k) == doc[CHOOSE i \in 1..Len(doc) : doc[i][1] = k][2]

RECURSIVE Canon(_, _)
Canon(doc, i) ==
    IF i > Len(CanonKeys) THEN <<>>
    ELSE IF HasKey(doc, CanonKeys[i])
         THEN <<<<CanonKeys[i], Val(doc, CanonKeys[i])>>>> \o Canon(doc, i + 1)
         ELSE Canon(doc, i + 1)

\* supervisor.NewSpec: a spec needs a name and a kind; it keeps the
\* canonical serialization of the document it was parsed from.
NewSpec(doc) ==
    IF HasKey(doc, "name") /\ HasKey(doc, "kind")
       /\ Val(doc, "name") \in Names /\ Val(doc, "kind") \in Kinds
    THEN [name |-> Val(doc, "name"), kind |-> Val(doc, "kind"),
          yamlConfig |-> Canon(doc, 1)]
    ELSE ParseError

\* yaml.Unmarshal into a map[string]interface{}
Unmarshal(doc) ==
    [k \in {doc[i][1] : i \in 1..Len(doc)} |-> Val(doc, k)]

\* fmt.Sprintf("%d", version): the decimal digits, most significant first
RECURSIVE FormatInt(_)
FormatInt(n) ==
    IF n < 10 THEN <<n>> ELSE FormatInt(n \div 10) \o <<n % 10>>

\* ------------------------------------------------------------------ inputs
\* The request bodies tried: every spec once, in canonical key order when
\* its data is "d0" and in reverse key order otherwise; a document with no
\* name, one with no kind, and a body whose read fails.
DocOf(n, k, d) ==
    IF d = "d0"
    THEN <<<<"name", n>>, <<"kind", k>>, <<"data", d>>>>
    ELSE <<<<"data", d>>, <<"kind", k>>, <<"name", n>>>>

Docs ==
    {DocOf(n, k, d) : <<n, k, d>> \in Names \X Kinds \X Datas}
    \cup {<<<<"kind", "Pipeline">>>>, <<<<"name", 1>>>>}

Bodies ==
    {[readErr |-> FALSE, doc |-> d] : d \in Docs}
    \cup {[readErr |-> TRUE, doc |-> <<>>]}

\* ------------------------------------------------------------------ state
VARIABLES
    objects,        \* the registry: the set of stored Specs
    configVersion,  \* the registry's version counter
    lock,           \* the Server's mutex: its holder, or NoProc
    statusView,     \* the supervisor's status of each name, or Nil
    pc,             \* where each goroutine stands in its handler
    op,             \* the handler each goroutine runs
    name,           \* ctx.Params().Get("name")
    spec,           \* the handler's local spec
    resp,           \* the response written so far
    started,        \* requests dispatched so far
    accepted,       \* history: mutations applied to the registry so far
    returned,       \* history: the version headers set, in lock order
    live,           \* history: accepted creates minus accepted deletes, per name
    snap            \* history: objects and configVersion when the lock was taken

vars == <<objects, configVersion, lock, statusView, pc, op, name, spec, resp,
          started, accepted, returned, live, snap>>

NoResp == [code |-> StatusOK, version |-> <<>>, location |-> <<>>,
           contentType |-> "", body |-> [none |-> TRUE]]

NoSnap == [none |-> TRUE]

\* ------------------------------------------------------------------ registry
\* Server._getObject: the Spec stored under a name, or nil
_getObject(n) ==
    IF \E s \in objects : s.name = n
    THEN CHOOSE s \in objects : s.name = n
    ELSE Nil

\* Server._putObject: insert, or replace the entry of the spec's name
_putObject(s) == {o \in objects : o.name # s.name} \cup {s}

\* Server._deleteObject: remove the entry of a name
_deleteObject(n) == {o \in objects : o.name # n}

\* Server._plusOneVersion: increment the version and return it
_plusOneVersion == configVersion + 1

\* Server._listObjects: the stored Specs, in the map's iteration order
_listObjects ==
    {l \in [1..Cardinality(objects) -> objects] :
        \A i, j \in 1..Cardinality(objects) : i # j => l[i] # l[j]}

\* Server._getStatusObject / Server._listStatusObjects
_getStatusObject(n) == statusView[n]
_listStatusObjects == statusView

\* HandleAPIError: the status code and an error body
HandleAPIError(r, code, msg) == [r EXCEPT !.code = code, !.body = [error |-> msg]]

Init ==
    /\ objects = {}
    /\ configVersion = 0
    /\ lock = NoProc
    /\ statusView = [n \in Names |-> Nil]
    /\ pc = [p \in Procs |-> "idle"]
    /\ op = [p \in Procs |-> "none"]
    /\ name = [p \in Procs |-> NoName]
    /\ spec = [p \in Procs |-> Nil]
    /\ resp = [p \in Procs |-> NoResp]
    /\ started = 0
    /\ accepted = 0
    /\ returned = <<>>
    /\ live = [n \in Names |-> 0]
    /\ snap = [p \in Procs |-> NoSnap]

\* ------------------------------------------------------------------ helpers
\* setupObjectAPIs: the router hands a request with path parameter n to
\* handler o, on a goroutine that serves no other request.
Dispatch(p, o, n) ==
    /\ pc[p] \in {"idle", "done"}
    /\ started < MaxRequests
    /\ started' = started + 1
    /\ op' = [op EXCEPT ![p] = o]
    /\ name' = [name EXCEPT ![p] = n]

\* (mutant) the name of the path is not compared with the name of the spec
readObjectSpecAnyName(b, n) ==
    IF b.readErr THEN [err |-> "read body failed"]
    ELSE IF NewSpec(b.doc) = ParseError THEN ParseError
    ELSE NewSpec(b.doc)

\* readObjectSpec: the parsed Spec, or an error
readObjectSpec(b, n) ==
    IF b.readErr THEN [err |-> "read body failed"]
    ELSE IF NewSpec(b.doc) = ParseError THEN ParseError
    ELSE IF n # NoName /\ n # NewSpec(b.doc).name
         THEN [err |-> "inconsistent name in url and spec "]
    ELSE NewSpec(b.doc)

IsErr(r) == "err" \in DOMAIN r

\* s.Lock()
Lock(p) ==
    /\ lock = NoProc
    /\ lock' = p
    /\ snap' = [snap EXCEPT ![p] = [objects |-> objects, version |-> configVersion]]

\* the deferred s.Unlock(), and the handler returns
Unlock(p) ==
    /\ lock = p
    /\ lock' = NoProc
    /\ snap' = [snap EXCEPT ![p] = NoSnap]
    /\ spec' = [spec EXCEPT ![p] = Nil]
    /\ pc' = [pc EXCEPT ![p] = "done"]

\* (mutant) the header is formatted from the version read before the bump
upgradeConfigVersionStale(p, r) ==
    /\ configVersion' = _plusOneVersion
    /\ resp' = [resp EXCEPT ![p] = [r EXCEPT !.version = FormatInt(configVersion)]]
    /\ returned' = Append(returned, FormatInt(configVersion))

\* upgradeConfigVersion: bump the version and set the version header of
\* response r
upgradeConfigVersion(p, r) ==
    /\ configVersion' = _plusOneVersion
    /\ resp' = [resp EXCEPT ![p] = [r EXCEPT !.version = FormatInt(_plusOneVersion)]]
    /\ returned' = Append(returned, FormatInt(_plusOneVersion))

\* ------------------------------------------------------------------ createObject
\* POST /objects arrives with body b; readObjectSpec
createRead(p, b) ==
    /\ Dispatch(p, "createObject", NoName)
    /\ LET r == readObjectSpec(b, NoName) IN
       IF IsErr(r)
       THEN /\ resp' = [resp EXCEPT ![p] = HandleAPIError(NoResp, StatusBadRequest, r.err)]
            /\ pc' = [pc EXCEPT ![p] = "done"]
            /\ spec' = [spec EXCEPT ![p] = Nil]
       ELSE /\ spec' = [spec EXCEPT ![p] = r]
            /\ pc' = [pc EXCEPT ![p] = "lock"]
            /\ resp' = [resp EXCEPT ![p] = NoResp]
    /\ UNCHANGED <<objects, configVersion, lock, statusView, returned, live, snap, accepted>>

\* (mutant) s.Lock() left out
createLockSkip(p) ==
    /\ op[p] = "createObject" /\ pc[p] = "lock"
    /\ snap' = [snap EXCEPT ![p] = [objects |-> objects, version |-> configVersion]]
    /\ pc' = [pc EXCEPT ![p] = "check"]
    /\ UNCHANGED <<objects, configVersion, lock, statusView, op, name, spec, resp,
                   started, returned, live, accepted>>

createLock(p) ==
    /\ op[p] = "createObject" /\ pc[p] = "lock"
    /\ Lock(p)
    /\ pc' = [pc EXCEPT ![p] = "check"]
    /\ UNCHANGED <<objects, configVersion, statusView, op, name, spec, resp,
                   started, returned, live, accepted>>

\* (mutant) no deferred unlock: the Conflict path returns with the mutex held
createCheckLeak(p) ==
    /\ op[p] = "createObject" /\ pc[p] = "check"
    /\ IF _getObject(spec[p].name) # Nil
       THEN /\ resp' = [resp EXCEPT ![p] = HandleAPIError(@, StatusConflict, "conflict name")]
            /\ pc' = [pc EXCEPT ![p] = "done"]
       ELSE /\ pc' = [pc EXCEPT ![p] = "put"]
            /\ resp' = resp
    /\ UNCHANGED <<objects, configVersion, lock, statusView, op, name, spec,
                   started, returned, live, snap, accepted>>

\* (mutant) no existence check: the put goes ahead whatever is stored
createCheckOverwrite(p) ==
    /\ op[p] = "createObject" /\ pc[p] = "check"
    /\ pc' = [pc EXCEPT ![p] = "put"]
    /\ UNCHANGED <<objects, configVersion, lock, statusView, op, name, spec, resp,
                   started, returned, live, snap, accepted>>

createCheck(p) ==
    /\ op[p] = "createObject" /\ pc[p] = "check"
    /\ IF _getObject(spec[p].name) # Nil
       THEN /\ resp' = [resp EXCEPT ![p] = HandleAPIError(@, StatusConflict, "conflict name")]
            /\ pc' = [pc EXCEPT ![p] = "unlock"]
       ELSE /\ pc' = [pc EXCEPT ![p] = "put"]
            /\ resp' = resp
    /\ UNCHANGED <<objects, configVersion, lock, statusView, op, name, spec,
                   started, returned, live, snap, accepted>>

\* (mutant) the version is bumped where the spec should be put
createPutVersionFirst(p) ==
    /\ op[p] = "createObject" /\ pc[p] = "put"
    /\ upgradeConfigVersion(p, resp[p])
    /\ accepted' = accepted + 1
    /\ pc' = [pc EXCEPT ![p] = "bump"]
    /\ UNCHANGED <<objects, lock, statusView, op, name, spec, started, live, snap>>

createPut(p) ==
    /\ op[p] = "createObject" /\ pc[p] = "put"
    /\ objects' = _putObject(spec[p])
    /\ accepted' = accepted + 1
    /\ pc' = [pc EXCEPT ![p] = "bump"]
    /\ UNCHANGED <<configVersion, lock, statusView, op, name, spec, resp,
                   started, returned, live, snap>>

\* (mutant) the created spec is written to the response before the unlock
createBumpEcho(p) ==
    /\ op[p] = "createObject" /\ pc[p] = "bump"
    /\ upgradeConfigVersion(p, [resp[p] EXCEPT
            !.code = StatusCreated,
            !.location = <<ObjectPrefix, spec[p].name>>,
            !.body = [yaml |-> spec[p].yamlConfig]])
    /\ live' = [live EXCEPT ![spec[p].name] = @ + 1]
    /\ pc' = [pc EXCEPT ![p] = "unlock"]
    /\ UNCHANGED <<objects, lock, statusView, op, name, spec, started, snap, accepted>>

\* upgradeConfigVersion, the Created status and the Location header
createBump(p) ==
    /\ op[p] = "createObject" /\ pc[p] = "bump"
    /\ upgradeConfigVersion(p, [resp[p] EXCEPT
            !.code = StatusCreated,
            !.location = <<ObjectPrefix, spec[p].name>>])
    /\ live' = [live EXCEPT ![spec[p].name] = @ + 1]
    /\ pc' = [pc EXCEPT ![p] = "unlock"]
    /\ UNCHANGED <<objects, lock, statusView, op, name, spec, started, snap, accepted>>

createUnlock(p) ==
    /\ op[p] = "createObject" /\ pc[p] = "unlock"
    /\ Unlock(p)
    /\ UNCHANGED <<objects, configVersion, statusView, op, name, resp,
                   started, returned, live, accepted>>

\* ------------------------------------------------------------------ deleteObject
deleteStart(p, n) ==
    /\ Dispatch(p, "deleteObject", n)
    /\ spec' = [spec EXCEPT ![p] = Nil]
    /\ resp' = [resp EXCEPT ![p] = NoResp]
    /\ pc' = [pc EXCEPT ![p] = "lock"]
    /\ UNCHANGED <<objects, configVersion, lock, statusView, returned, live, snap, accepted>>

deleteLock(p) ==
    /\ op[p] = "deleteObject" /\ pc[p] = "lock"
    /\ Lock(p)
    /\ pc' = [pc EXCEPT ![p] = "check"]
    /\ UNCHANGED <<objects, configVersion, statusView, op, name, spec, resp,
                   started, returned, live, accepted>>

\* (mutant) no existence check: an absent name is deleted like a present one
deleteCheckAlways(p) ==
    /\ op[p] = "deleteObject" /\ pc[p] = "check"
    /\ pc' = [pc EXCEPT ![p] = "delete"]
    /\ UNCHANGED <<objects, configVersion, lock, statusView, op, name, spec, resp,
                   started, returned, live, snap, accepted>>

deleteCheck(p) ==
    /\ op[p] = "deleteObject" /\ pc[p] = "check"
    /\ IF _getObject(name[p]) = Nil
       THEN /\ resp' = [resp EXCEPT ![p] = HandleAPIError(@, StatusNotFound, "not found")]
            /\ pc' = [pc EXCEPT ![p] = "unlock"]
       ELSE /\ pc' = [pc EXCEPT ![p] = "delete"]
            /\ resp' = resp
    /\ UNCHANGED <<objects, configVersion, lock, statusView, op, name, spec,
                   started, returned, live, snap, accepted>>

deleteDelete(p) ==
    /\ op[p] = "deleteObject" /\ pc[p] = "delete"
    /\ objects' = _deleteObject(name[p])
    /\ accepted' = accepted + 1
    /\ pc' = [pc EXCEPT ![p] = "bump"]
    /\ UNCHANGED <<configVersion, lock, statusView, op, name, spec, resp,
                   started, returned, live, snap>>

\* (mutant) the delete returns without upgradeConfigVersion
deleteBumpMissing(p) ==
    /\ op[p] = "deleteObject" /\ pc[p] = "bump"
    /\ live' = [live EXCEPT ![name[p]] = @ - 1]
    /\ pc' = [pc EXCEPT ![p] = "unlock"]
    /\ UNCHANGED <<objects, configVersion, resp, returned, lock, statusView, op,
                   name, spec, started, snap, accepted>>

deleteBump(p) ==
    /\ op[p] = "deleteObject" /\ pc[p] = "bump"
    /\ upgradeConfigVersion(p, resp[p])
    /\ live' = [live EXCEPT ![name[p]] = @ - 1]
    /\ pc' = [pc EXCEPT ![p] = "unlock"]
    /\ UNCHANGED <<objects, lock, statusView, op, name, spec, started, snap, accepted>>

deleteUnlock(p) ==
    /\ op[p] = "deleteObject" /\ pc[p] = "unlock"
    /\ Unlock(p)
    /\ UNCHANGED <<objects, configVersion, statusView, op, name, resp,
                   started, returned, live, accepted>>

\* ------------------------------------------------------------------ updateObject
\* PUT /objects/{n} arrives with body b; readObjectSpec
updateRead(p, n, b) ==
    /\ Dispatch(p, "updateObject", n)
    /\ LET r == readObjectSpec(b, n) IN
       IF IsErr(r)
       THEN /\ resp' = [resp EXCEPT ![p] = HandleAPIError(NoResp, StatusBadRequest, r.err)]
            /\ pc' = [pc EXCEPT ![p] = "done"]
            /\ spec' = [spec EXCEPT ![p] = Nil]
       ELSE /\ spec' = [spec EXCEPT ![p] = r]
            /\ pc' = [pc EXCEPT ![p] = "lock"]
            /\ resp' = [resp EXCEPT ![p] = NoResp]
    /\ UNCHANGED <<objects, configVersion, lock, statusView, returned, live, snap, accepted>>

updateLock(p) ==
    /\ op[p] = "updateObject" /\ pc[p] = "lock"
    /\ Lock(p)
    /\ pc' = [pc EXCEPT ![p] = "check"]
    /\ UNCHANGED <<objects, configVersion, statusView, op, name, spec, resp,
                   started, returned, live, accepted>>

\* (mutant) no kind check: any spec replaces the stored one
updateCheckNoKind(p) ==
    /\ op[p] = "updateObject" /\ pc[p] = "check"
    /\ LET existedSpec == _getObject(spec[p].name) IN
       IF existedSpec = Nil
       THEN /\ resp' = [resp EXCEPT ![p] = HandleAPIError(@, StatusNotFound, "not found")]
            /\ pc' = [pc EXCEPT ![p] = "unlock"]
       ELSE /\ pc' = [pc EXCEPT ![p] = "put"]
            /\ resp' = resp
    /\ UNCHANGED <<objects, configVersion, lock, statusView, op, name, spec,
                   started, returned, live, snap, accepted>>

\* (mutant) no existence check: an absent name is put like a present one
updateCheckUpsert(p) ==
    /\ op[p] = "updateObject" /\ pc[p] = "check"
    /\ LET existedSpec == _getObject(spec[p].name) IN
       IF existedSpec # Nil /\ existedSpec.kind # spec[p].kind
       THEN /\ resp' = [resp EXCEPT ![p] = HandleAPIError(@, StatusBadRequest, "different kinds")]
            /\ pc' = [pc EXCEPT ![p] = "unlock"]
       ELSE /\ pc' = [pc EXCEPT ![p] = "put"]
            /\ resp' = resp
    /\ UNCHANGED <<objects, configVersion, lock, statusView, op, name, spec,
                   started, returned, live, snap, accepted>>

\* (mutant) the return after the kind error is missing
updateCheckNoReturn(p) ==
    /\ op[p] = "updateObject" /\ pc[p] = "check"
    /\ LET existedSpec == _getObject(spec[p].name) IN
       IF existedSpec = Nil
       THEN /\ resp' = [resp EXCEPT ![p] = HandleAPIError(@, StatusNotFound, "not found")]
            /\ pc' = [pc EXCEPT ![p] = "unlock"]
       ELSE IF existedSpec.kind # spec[p].kind
       THEN /\ resp' = [resp EXCEPT ![p] = HandleAPIError(@, StatusBadRequest, "different kinds")]
            /\ pc' = [pc EXCEPT ![p] = "put"]
       ELSE /\ pc' = [pc EXCEPT ![p] = "put"]
            /\ resp' = resp
    /\ UNCHANGED <<objects, configVersion, lock, statusView, op, name, spec,
                   started, returned, live, snap, accepted>>

updateCheck(p) ==
    /\ op[p] = "updateObject" /\ pc[p] = "check"
    /\ LET existedSpec == _getObject(spec[p].name) IN
       IF existedSpec = Nil
       THEN /\ resp' = [resp EXCEPT ![p] = HandleAPIError(@, StatusNotFound, "not found")]
            /\ pc' = [pc EXCEPT ![p] = "unlock"]
       ELSE IF existedSpec.kind # spec[p].kind
       THEN /\ resp' = [resp EXCEPT ![p] = HandleAPIError(@, StatusBadRequest, "different kinds")]
            /\ pc' = [pc EXCEPT ![p] = "unlock"]
       ELSE /\ pc' = [pc EXCEPT ![p] = "put"]
            /\ resp' = resp
    /\ UNCHANGED <<objects, configVersion, lock, statusView, op, name, spec,
                   started, returned, live, snap, accepted>>

\* (mutant) the replacement is not one step: the stored Spec is removed
\* first and the submitted one is put by a second step
updatePutRemoveFirst(p) ==
    /\ op[p] = "updateObject" /\ pc[p] = "put"
    /\ IF _getObject(spec[p].name) # Nil
       THEN /\ objects' = _deleteObject(spec[p].name)
            /\ UNCHANGED <<accepted, pc>>
       ELSE /\ objects' = _putObject(spec[p])
            /\ accepted' = accepted + 1
            /\ pc' = [pc EXCEPT ![p] = "bump"]
    /\ UNCHANGED <<configVersion, lock, statusView, op, name, spec, resp,
                   started, returned, live, snap>>

updatePut(p) ==
    /\ op[p] = "updateObject" /\ pc[p] = "put"
    /\ objects' = _putObject(spec[p])
    /\ accepted' = accepted + 1
    /\ pc' = [pc EXCEPT ![p] = "bump"]
    /\ UNCHANGED <<configVersion, lock, statusView, op, name, spec, resp,
                   started, returned, live, snap>>

updateBump(p) ==
    /\ op[p] = "updateObject" /\ pc[p] = "bump"
    /\ upgradeConfigVersion(p, resp[p])
    /\ pc' = [pc EXCEPT ![p] = "unlock"]
    /\ UNCHANGED <<objects, lock, statusView, op, name, spec, started, live, snap, accepted>>

updateUnlock(p) ==
    /\ op[p] = "updateObject" /\ pc[p] = "unlock"
    /\ Unlock(p)
    /\ UNCHANGED <<objects, configVersion, statusView, op, name, resp,
                   started, returned, live, accepted>>

\* ------------------------------------------------------------------ getObject
\* (mutant) the not-found branch is missing: an absent name gets an empty
\* document
getObjectNoNotFound(p, n) ==
    /\ Dispatch(p, "getObject", n)
    /\ LET s == _getObject(n) IN
       resp' = [resp EXCEPT ![p] =
                  [NoResp EXCEPT !.contentType = YAMLType,
                                 !.body = [yaml |-> IF s = Nil THEN <<>> ELSE s.yamlConfig]]]
    /\ spec' = [spec EXCEPT ![p] = Nil]
    /\ pc' = [pc EXCEPT ![p] = "done"]
    /\ UNCHANGED <<objects, configVersion, lock, statusView, returned, live, snap, accepted>>

\* (mutant) the read is made under the mutex
getObjectLocked(p, n) ==
    /\ lock = NoProc
    /\ Dispatch(p, "getObject", n)
    /\ LET s == _getObject(n) IN
       resp' = [resp EXCEPT ![p] =
                  IF s = Nil
                  THEN HandleAPIError(NoResp, StatusNotFound, "not found")
                  ELSE [NoResp EXCEPT !.contentType = YAMLType,
                                      !.body = [yaml |-> s.yamlConfig]]]
    /\ spec' = [spec EXCEPT ![p] = Nil]
    /\ pc' = [pc EXCEPT ![p] = "done"]
    /\ UNCHANGED <<objects, configVersion, lock, statusView, returned, live, snap, accepted>>

getObject(p, n) ==
    /\ Dispatch(p, "getObject", n)
    /\ LET s == _getObject(n) IN
       resp' = [resp EXCEPT ![p] =
                  IF s = Nil
                  THEN HandleAPIError(NoResp, StatusNotFound, "not found")
                  ELSE [NoResp EXCEPT !.contentType = YAMLType,
                                      !.body = [yaml |-> s.yamlConfig]]]
    /\ spec' = [spec EXCEPT ![p] = Nil]
    /\ pc' = [pc EXCEPT ![p] = "done"]
    /\ UNCHANGED <<objects, configVersion, lock, statusView, returned, live, snap, accepted>>

\* ------------------------------------------------------------------ listObjects
\* specList.Less, specList.Swap
\* (mutant) the comparison is the wrong way round
LessReversed(s, i, j) == s[i].name > s[j].name

Less(s, i, j) == s[i].name < s[j].name

Swap(s, i, j) == [s EXCEPT ![i] = s[j], ![j] = s[i]]

\* sort.Sort on a short slice: insertion sort with Less and Swap
RECURSIVE SinkDown(_, _)
SinkDown(s, j) ==
    IF j > 1 /\ Less(s, j, j - 1) THEN SinkDown(Swap(s, j, j - 1), j - 1) ELSE s

RECURSIVE SortFrom(_, _)
SortFrom(s, i) ==
    IF i > Len(s) THEN s ELSE SortFrom(SinkDown(s, i), i + 1)

Sort(s) == SortFrom(s, 2)

\* specList.Marshal: each spec's yaml config as a map, in the list's order
Marshal(s) == [i \in 1..Len(s) |-> Unmarshal(s[i].yamlConfig)]

listObjects(p) ==
    /\ Dispatch(p, "listObjects", NoName)
    /\ \E l \in _listObjects :
          resp' = [resp EXCEPT ![p] =
                     [NoResp EXCEPT !.contentType = YAMLType,
                                    !.body = [list |-> Marshal(Sort(l))]]]
    /\ spec' = [spec EXCEPT ![p] = Nil]
    /\ pc' = [pc EXCEPT ![p] = "done"]
    /\ UNCHANGED <<objects, configVersion, lock, statusView, returned, live, snap, accepted>>

\* ------------------------------------------------------------------ getStatusObject
getStatusCheck(p, n) ==
    /\ Dispatch(p, "getStatusObject", n)
    /\ IF _getObject(n) = Nil
       THEN /\ resp' = [resp EXCEPT ![p] = HandleAPIError(NoResp, StatusNotFound, "not found")]
            /\ pc' = [pc EXCEPT ![p] = "done"]
       ELSE /\ resp' = [resp EXCEPT ![p] = NoResp]
            /\ pc' = [pc EXCEPT ![p] = "statusFetch"]
    /\ spec' = [spec EXCEPT ![p] = Nil]
    /\ UNCHANGED <<objects, configVersion, lock, statusView, returned, live, snap, accepted>>

\* (mutant) the registry is looked up again before the status is returned
getStatusFetchRecheck(p) ==
    /\ op[p] = "getStatusObject" /\ pc[p] = "statusFetch"
    /\ resp' = [resp EXCEPT ![p] =
                  IF _getObject(name[p]) = Nil
                  THEN HandleAPIError(@, StatusNotFound, "not found")
                  ELSE [@ EXCEPT !.contentType = YAMLType,
                                 !.body = [status |-> _getStatusObject(name[p])]]]
    /\ pc' = [pc EXCEPT ![p] = "done"]
    /\ UNCHANGED <<objects, configVersion, lock, statusView, op, name, spec,
                   started, returned, live, snap, accepted>>

getStatusFetch(p) ==
    /\ op[p] = "getStatusObject" /\ pc[p] = "statusFetch"
    /\ resp' = [resp EXCEPT ![p] =
                  [@ EXCEPT !.contentType = YAMLType,
                            !.body = [status |-> _getStatusObject(name[p])]]]
    /\ pc' = [pc EXCEPT ![p] = "done"]
    /\ UNCHANGED <<objects, configVersion, lock, statusView, op, name, spec,
                   started, returned, live, snap, accepted>>

\* ------------------------------------------------------------------ listStatusObjects
\* (mutant) only the statuses of names found in the registry are returned
listStatusObjectsFiltered(p) ==
    /\ Dispatch(p, "listStatusObjects", NoName)
    /\ resp' = [resp EXCEPT ![p] =
                  [NoResp EXCEPT !.contentType = YAMLType,
                                 !.body = [statuses |->
                                    [n \in Names |-> IF _getObject(n) = Nil THEN Nil
                                                     ELSE statusView[n]]]]]
    /\ spec' = [spec EXCEPT ![p] = Nil]
    /\ pc' = [pc EXCEPT ![p] = "done"]
    /\ UNCHANGED <<objects, configVersion, lock, statusView, returned, live, snap, accepted>>

listStatusObjects(p) ==
    /\ Dispatch(p, "listStatusObjects", NoName)
    /\ resp' = [resp EXCEPT ![p] =
                  [NoResp EXCEPT !.contentType = YAMLType,
                                 !.body = [statuses |-> _listStatusObjects]]]
    /\ spec' = [spec EXCEPT ![p] = Nil]
    /\ pc' = [pc EXCEPT ![p] = "done"]
    /\ UNCHANGED <<objects, configVersion, lock, statusView, returned, live, snap, accepted>>

\* ------------------------------------------------------------------ the supervisor
\* The supervisor refreshes or drops the status of a name.
SupervisorReport(n, v) ==
    /\ statusView[n] # v
    /\ statusView' = [statusView EXCEPT ![n] = v]
    /\ UNCHANGED <<objects, configVersion, lock, pc, op, name, spec, resp,
                   started, returned, live, snap, accepted>>

\* ------------------------------------------------------------------ specifications
\* The registry handlers: /objects
Next ==
    \/ \E p \in Procs, b \in Bodies : createRead(p, b)
    \/ \E p \in Procs : createLock(p)
    \/ \E p \in Procs : createCheck(p)
    \/ \E p \in Procs : createPut(p)
    \/ \E p \in Procs : createBump(p)
    \/ \E p \in Procs : createUnlock(p)
    \/ \E p \in Procs, n \in Names : deleteStart(p, n)
    \/ \E p \in Procs : deleteLock(p)
    \/ \E p \in Procs : deleteCheck(p)
    \/ \E p \in Procs : deleteDelete(p)
    \/ \E p \in Procs : deleteBump(p)
    \/ \E p \in Procs : deleteUnlock(p)
    \/ \E p \in Procs, n \in Names, b \in Bodies : updateRead(p, n, b)
    \/ \E p \in Procs : updateLock(p)
    \/ \E p \in Procs : updateCheck(p)
    \/ \E p \in Procs : updatePut(p)
    \/ \E p \in Procs : updateBump(p)
    \/ \E p \in Procs : updateUnlock(p)
    \/ \E p \in Procs, n \in Names : getObject(p, n)
    \/ \E p \in Procs : listObjects(p)

Spec == Init /\ [][Next]_vars

\* The steps a goroutine takes once its request is dispatched.  The Go
\* scheduler runs every runnable goroutine, and a goroutine blocked in
\* s.Lock() gets the mutex once it stays free (weak fairness is enough:
\* only finitely many requests are dispatched, so a mutex that is free again
\* and again is in the end free for good).
Step(p) ==
    \/ createLock(p) \/ createCheck(p) \/ createPut(p) \/ createBump(p)
    \/ createUnlock(p)
    \/ deleteLock(p) \/ deleteCheck(p) \/ deleteDelete(p) \/ deleteBump(p)
    \/ deleteUnlock(p)
    \/ updateLock(p) \/ updateCheck(p) \/ updatePut(p) \/ updateBump(p)
    \/ updateUnlock(p)

\* The requests that take the mutex, under that scheduling.
MutatingNext ==
    \/ \E p \in Procs, b \in Bodies : createRead(p, b)
    \/ \E p \in Procs, n \in Names : deleteStart(p, n)
    \/ \E p \in Procs, n \in Names, b \in Bodies : updateRead(p, n, b)
    \/ \E p \in Procs : Step(p)

FairSpec == Init /\ [][MutatingNext]_vars /\ \A p \in Procs : WF_vars(Step(p))

\* The status handlers, /status/objects, and the two lock-free readers of
\* /objects, beside the supervisor and the requests that create and delete
\* the objects they look up.
StatusBodies == {[readErr |-> FALSE, doc |-> DocOf(n, "Pipeline", "d0")] : n \in Names}

StatusNext ==
    \/ \E n \in Names, v \in StatusValues \cup {Nil} : SupervisorReport(n, v)
    \/ \E p \in Procs, b \in StatusBodies : createRead(p, b)
    \/ \E p \in Procs : createLock(p)
    \/ \E p \in Procs : createCheck(p)
    \/ \E p \in Procs : createPut(p)
    \/ \E p \in Procs : createBump(p)
    \/ \E p \in Procs : createUnlock(p)
    \/ \E p \in Procs, n \in Names : deleteStart(p, n)
    \/ \E p \in Procs : deleteLock(p)
    \/ \E p \in Procs : deleteCheck(p)
    \/ \E p \in Procs : deleteDelete(p)
    \/ \E p \in Procs : deleteBump(p)
    \/ \E p \in Procs : deleteUnlock(p)
    \/ \E p \in Procs, n \in Names : getStatusCheck(p, n)
    \/ \E p \in Procs : getStatusFetch(p)
    \/ \E p \in Procs : listStatusObjects(p)
    \/ \E p \in Procs, n \in Names : getObject(p, n)
    \/ \E p \in Procs : listObjects(p)

StatusSpec == Init /\ [][StatusNext]_vars

\* The end-to-end scenario: six requests, one after the other, each served
\* by any goroutine, on a server that starts empty.
BodyOf(n, k, d) == [readErr |-> FALSE, doc |-> DocOf(n, k, d)]
Bodiless == [readErr |-> FALSE, doc |-> <<>>]

Script ==
    <<[op |-> "createObject", name |-> NoName, body |-> BodyOf(1, "Pipeline", "d0")],
      [op |-> "getObject", name |-> 1, body |-> Bodiless],
      [op |-> "updateObject", name |-> 1, body |-> BodyOf(1, "Pipeline", "d1")],
      [op |-> "updateObject", name |-> 1, body |-> BodyOf(1, "Other", "d0")],
      [op |-> "deleteObject", name |-> 1, body |-> Bodiless],
      [op |-> "getObject", name |-> 1, body |-> Bodiless]>>

\* the request budget of Dispatch is what the script needs
ScenarioStart == MaxRequests - Len(Script)

\* requests of the script dispatched so far
Pos == started - ScenarioStart

Quiet == \A p \in Procs : pc[p] \in {"idle", "done"}

Scripted(o, n, b) ==
    /\ Quiet
    /\ Pos < Len(Script)
    /\ Script[Pos + 1] = [op |-> o, name |-> n, body |-> b]

ScenarioInit ==
    /\ objects = {}
    /\ configVersion = 0
    /\ lock = NoProc
    /\ statusView = [n \in Names |-> Nil]
    /\ pc = [p \in Procs |-> "idle"]
    /\ op = [p \in Procs |-> "none"]
    /\ name = [p \in Procs |-> NoName]
    /\ spec = [p \in Procs |-> Nil]
    /\ resp = [p \in Procs |-> NoResp]
    /\ started = ScenarioStart
    /\ accepted = 0
    /\ returned = <<>>
    /\ live = [n \in Names |-> 0]
    /\ snap = [p \in Procs |-> NoSnap]

ScenarioNext ==
    \/ \E p \in Procs, b \in Bodies :
          Scripted("createObject", NoName, b) /\ createRead(p, b)
    \/ \E p \in Procs : createLock(p)
    \/ \E p \in Procs : createCheck(p)
    \/ \E p \in Procs : createPut(p)
    \/ \E p \in Procs : createBump(p)
    \/ \E p \in Procs : createUnlock(p)
    \/ \E p \in Procs, n \in Names :
          Scripted("deleteObject", n, Bodiless) /\ deleteStart(p, n)
    \/ \E p \in Procs : deleteLock(p)
    \/ \E p \in Procs : deleteCheck(p)
    \/ \E p \in Procs : deleteDelete(p)
    \/ \E p \in Procs : deleteBump(p)
    \/ \E p \in Procs : deleteUnlock(p)
    \/ \E p \in Procs, n \in Names, b \in Bodies :
          Scripted("updateObject", n, b) /\ updateRead(p, n, b)
    \/ \E p \in Procs : updateLock(p)
    \/ \E p \in Procs : updateCheck(p)
    \/ \E p \in Procs : updatePut(p)
    \/ \E p \in Procs : updateBump(p)
    \/ \E p \in Procs : updateUnlock(p)
    \/ \E p \in Procs, n \in Names :
          Scripted("getObject", n, Bodiless) /\ getObject(p, n)

ScenarioSpec == ScenarioInit /\ [][ScenarioNext]_vars

\* ------------------------------------------------------------------ properties
Mutating == {"createObject", "updateObject", "deleteObject"}

Failed(r) == r.code >= StatusBadRequest

StoredNames(objs) == {s.name : s \in objs}

\* strconv of a version header back to the number it shows
RECURSIVE ParseInt(_)
ParseInt(ds) ==
    IF ds = <<>> THEN 0
    ELSE 10 * ParseInt(SubSeq(ds, 1, Len(ds) - 1)) + ds[Len(ds)]

\* C1: every mutation applied to the registry bumps configVersion exactly
\* once, by one, and its response carries the bumped value: the version
\* headers handed out are 1, 2, 3, ... in the order the requests held the
\* lock, no two responses carry the same one, and configVersion is the
\* number of accepted mutations.
C1_VersionsConsecutive ==
    /\ configVersion + Cardinality({p \in Procs : pc[p] = "bump"}) = accepted
    /\ Len(returned) = configVersion
    /\ \A i \in 1..Len(returned) : ParseInt(returned[i]) = i
    /\ \A p \in Procs :
          op[p] \in Mutating /\ pc[p] = "unlock" /\ ~Failed(resp[p])
          => /\ ParseInt(resp[p].version) = configVersion
             /\ configVersion = snap[p].version + 1
    /\ \A p, q \in Procs :
          p # q /\ resp[p].version # <<>> /\ resp[q].version # <<>>
          => resp[p].version # resp[q].version

C1_Witness ==
    /\ configVersion = 3
    /\ \E p, q \in Procs :
          /\ op[p] = "deleteObject" /\ pc[p] = "unlock" /\ ParseInt(resp[p].version) = 3
          /\ op[q] = "updateObject" /\ ParseInt(resp[q].version) = 2

\* C2: a create, update or delete that ends in an error never changes
\* objects or configVersion (they are, while it still holds the lock, what
\* they were when it took the lock), and its response has no version header;
\* any change of the registry is the step of a lock holder that is not in
\* error.
C2_FailedMutationsChangeNothing ==
    [][/\ (objects' # objects \/ configVersion' # configVersion)
          => /\ lock \in Procs /\ lock' = lock
             /\ ~Failed(resp[lock]) /\ ~Failed(resp'[lock])
       /\ \A p \in Procs :
             op'[p] \in Mutating /\ Failed(resp'[p])
             => /\ resp'[p].version = <<>>
                /\ pc'[p] \in {"unlock", "done"}
                /\ pc'[p] = "unlock" <=> lock' = p
                /\ lock' = p => /\ objects' = snap'[p].objects
                                /\ configVersion' = snap'[p].version]_vars

C2_Witness ==
    \E p \in Procs :
        /\ op[p] = "updateObject" /\ lock = p /\ pc[p] = "unlock"
        /\ resp[p].code = StatusBadRequest
        /\ objects # {} /\ configVersion > 0

\* C3: of the createObject requests racing for one absent name exactly one
\* is accepted: no two are past the existence check at once, the name is
\* still absent when the winner puts, a create that finds the name absent is
\* accepted and one that finds it present gets Conflict, and no name has two
\* accepted creates without an accepted delete between them.
C3_OneCreateWins ==
    /\ \A p \in Procs :
          op[p] = "createObject" /\ pc[p] = "put" => _getObject(spec[p].name) = Nil
    /\ \A p, q \in Procs :
          /\ p # q /\ op[p] = "createObject" /\ op[q] = "createObject"
          /\ pc[p] \in {"put", "bump"} /\ pc[q] \in {"put", "bump"}
          => spec[p].name # spec[q].name
    /\ \A n \in Names : live[n] \in {0, 1}
    /\ \A p \in Procs :
          op[p] = "createObject" /\ pc[p] = "unlock"
          => IF spec[p].name \in StoredNames(snap[p].objects)
             THEN resp[p].code = StatusConflict
             ELSE resp[p].code = StatusCreated /\ live[spec[p].name] = 1

C3_Witness ==
    \E p, q \in Procs :
        /\ p # q /\ op[p] = "createObject" /\ op[q] = "createObject"
        /\ pc[p] = "unlock" /\ resp[p].code = StatusCreated
        /\ pc[q] = "lock" /\ spec[q].name = spec[p].name
        /\ spec[p].name \notin StoredNames(snap[p].objects)

\* C4: no two stored Specs have the same name, and a createObject that
\* finds its name present answers Conflict and leaves the registry, so the
\* Spec stored under that name, as it was.
C4_UniqueNames ==
    /\ \A s, t \in objects : s.name = t.name => s = t
    /\ \A p \in Procs :
          /\ op[p] = "createObject" /\ pc[p] \in {"put", "bump", "unlock"}
          /\ spec[p].name \in StoredNames(snap[p].objects)
          => /\ pc[p] = "unlock" /\ resp[p].code = StatusConflict
             /\ objects = snap[p].objects

C4_Witness ==
    \E p \in Procs :
        /\ op[p] = "createObject" /\ pc[p] = "unlock"
        /\ resp[p].code = StatusConflict
        /\ _getObject(spec[p].name) \notin {Nil, spec[p]}

\* the Spec a request found under its name when it took the lock
Found(p, n) == CHOOSE s \in snap[p].objects : s.name = n

\* C5: an updateObject that finds its name stored with another kind answers
\* 400 "different kinds" and leaves the stored Spec and configVersion as
\* they were; one that finds it stored with the same kind replaces the
\* stored Spec by the submitted one, bumps the version once and reports it.
C5_KindChecked ==
    \A p \in Procs :
        /\ op[p] = "updateObject" /\ pc[p] \in {"put", "bump", "unlock"}
        /\ spec[p].name \in StoredNames(snap[p].objects)
        => IF Found(p, spec[p].name).kind # spec[p].kind
           THEN /\ pc[p] = "unlock"
                /\ resp[p].code = StatusBadRequest
                /\ resp[p].body = [error |-> "different kinds"]
                /\ objects = snap[p].objects
                /\ configVersion = snap[p].version
           ELSE /\ resp[p].code = StatusOK
                /\ pc[p] = "unlock"
                   => /\ objects = (snap[p].objects \ {Found(p, spec[p].name)})
                                   \cup {spec[p]}
                      /\ configVersion = snap[p].version + 1
                      /\ ParseInt(resp[p].version) = configVersion

C5_Witness ==
    \E p, q \in Procs :
        /\ op[p] = "updateObject" /\ pc[p] = "unlock"
        /\ resp[p].body = [error |-> "different kinds"]
        /\ op[q] = "updateObject" /\ pc[q] = "done"
        /\ resp[q].code = StatusOK /\ resp[q].version = <<2>>

\* C6: an updateObject that finds its name absent answers 404 "not found",
\* whatever the kind it submits, and the name is still absent and the
\* registry and configVersion unchanged when it returns.
C6_UpdateNeverCreates ==
    \A p \in Procs :
        /\ op[p] = "updateObject" /\ pc[p] \in {"put", "bump", "unlock"}
        /\ spec[p].name \notin StoredNames(snap[p].objects)
        => /\ pc[p] = "unlock"
           /\ resp[p].code = StatusNotFound
           /\ resp[p].body = [error |-> "not found"]
           /\ spec[p].name \notin StoredNames(objects)
           /\ objects = snap[p].objects
           /\ configVersion = snap[p].version

C6_Witness ==
    \E p \in Procs :
        /\ op[p] = "updateObject" /\ pc[p] = "unlock"
        /\ resp[p].code = StatusNotFound
        /\ spec[p].kind = "Other"
        /\ \E s \in objects : s.kind = "Pipeline"

\* C7: a deleteObject returns with its name removed, the version bumped once
\* and reported, if it found the name, and with 404 and nothing changed if it
\* did not; a removed name comes back only by the put of a createObject; a
\* getObject of an absent name answers 404.
C7_DeleteThenGet ==
    [][/\ \A p \in Procs :
             deleteUnlock(p)
             => IF name[p] \in StoredNames(snap[p].objects)
                THEN /\ resp[p].code = StatusOK
                     /\ ParseInt(resp[p].version) = snap[p].version + 1
                     /\ configVersion = snap[p].version + 1
                     /\ objects = {s \in snap[p].objects : s.name # name[p]}
                ELSE /\ resp[p].code = StatusNotFound
                     /\ resp[p].version = <<>>
                     /\ configVersion = snap[p].version
                     /\ objects = snap[p].objects
       /\ \A n \in Names :
             n \notin StoredNames(objects) /\ n \in StoredNames(objects')
             => \E p \in Procs : createPut(p) /\ spec[p].name = n
       /\ \A p \in Procs, n \in Names :
             getObject(p, n) /\ n \notin StoredNames(objects)
             => resp'[p].code = StatusNotFound]_vars

\* the create had version 1, a second mutation emptied the registry, and the
\* goroutine that made it went on to get the name
C7_Witness ==
    \E p, q \in Procs :
        /\ started = 3 /\ configVersion = 2 /\ objects = {}
        /\ op[p] = "createObject" /\ pc[p] = "done" /\ resp[p].version = <<1>>
        /\ op[q] = "getObject" /\ pc[q] = "done"
        /\ name[q] = resp[p].location[2]
        /\ resp[q].code = StatusNotFound

\* what a yaml document says, whatever the order of its lines
Lines(doc) == {doc[i] : i \in 1..Len(doc)}
DocVal(doc, k) == (CHOOSE l \in Lines(doc) : l[1] = k)[2]

\* C8: createObject stores a Spec with the name, kind and content of the
\* body it parsed; the Spec stored under a name changes only by the put of
\* an updateObject or the delete of a deleteObject of that name; getObject
\* answers 404 exactly when the name is absent, and otherwise a document
\* that parses to the name, kind and content of the stored Spec.
C8_GetAfterCreate ==
    [][/\ \A p \in Procs, b \in Bodies :
             createRead(p, b) /\ pc'[p] = "lock"
             => /\ spec'[p].name = DocVal(b.doc, "name")
                /\ spec'[p].kind = DocVal(b.doc, "kind")
                /\ Lines(spec'[p].yamlConfig) = Lines(b.doc)
       /\ \A p \in Procs :
             createPut(p) => spec[p] \in objects'
       /\ \A s \in objects :
             s \notin objects'
             => \E p \in Procs : \/ updatePut(p) /\ spec[p].name = s.name
                                 \/ deleteDelete(p) /\ name[p] = s.name
       /\ \A p \in Procs, n \in Names :
             getObject(p, n)
             => IF n \notin StoredNames(objects)
                THEN resp'[p].code = StatusNotFound
                ELSE /\ resp'[p].code = StatusOK
                     /\ \E s \in objects :
                           /\ s.name = n
                           /\ NewSpec(resp'[p].body.yaml).name = s.name
                           /\ NewSpec(resp'[p].body.yaml).kind = s.kind
                           /\ Lines(resp'[p].body.yaml) = Lines(s.yamlConfig)]_vars

C8_Witness ==
    \E p, q \in Procs :
        /\ op[p] = "createObject" /\ pc[p] = "done" /\ resp[p].code = StatusCreated
        /\ op[q] = "getObject" /\ pc[q] = "done" /\ resp[q].code = StatusOK
        /\ name[q] = resp[p].location[2]
        /\ configVersion = 1
        /\ resp[q].body.yaml = <<<<"name", name[q]>>, <<"kind", "Other">>, <<"data", "d1">>>>

\* C9: listObjects answers the Specs of the registry it read, one entry per
\* stored name, in ascending order of name, whatever the order the map
\* yields them in and whatever the order they were created in.
C9_ListSorted ==
    [][\A p \in Procs :
          listObjects(p)
          => LET l == resp'[p].body.list IN
             /\ Len(l) = Cardinality(objects)
             /\ \A i, j \in 1..Len(l) : i < j => l[i]["name"] < l[j]["name"]
             /\ \A s \in objects :
                   \E i \in 1..Len(l) :
                      /\ l[i]["name"] = s.name /\ l[i]["kind"] = s.kind
                      /\ {<<k, l[i][k]>> : k \in DOMAIN l[i]} = Lines(s.yamlConfig)]_vars

\* name 1 was created second (version 2), and is listed first
C9_Witness ==
    \E p, q \in Procs :
        /\ op[q] = "createObject" /\ pc[q] = "done"
        /\ resp[q].version = <<2>> /\ resp[q].location[2] = 1
        /\ op[p] = "listObjects" /\ pc[p] = "done"
        /\ Len(resp[p].body.list) = 2
        /\ resp[p].body.list[1]["name"] = 1
        /\ resp[p].body.list[2]["name"] = 2

\* C10: getStatusObject answers 404 at its registry lookup exactly when the
\* name is absent from the registry, whatever the Status View holds for it;
\* once the lookup has passed it answers what the Status View holds for the
\* name, whether or not the name is still in the registry.
C10_StatusAfterDelete ==
    [][/\ \A p \in Procs, n \in Names :
             getStatusCheck(p, n)
             => IF n \in StoredNames(objects)
                THEN pc'[p] = "statusFetch" /\ resp'[p].code = StatusOK
                ELSE pc'[p] = "done" /\ resp'[p].code = StatusNotFound
       /\ \A p \in Procs :
             getStatusFetch(p)
             => /\ pc'[p] = "done"
                /\ resp'[p].code = StatusOK
                /\ resp'[p].body = [status |-> statusView[name[p]]]]_vars

\* the name was deleted after the lookup and before the fetch
C10_Witness ==
    \E p \in Procs :
        /\ op[p] = "getStatusObject" /\ pc[p] = "statusFetch"
        /\ name[p] \notin StoredNames(objects)
        /\ statusView[name[p]] \in StatusValues

\* C11: listStatusObjects answers the whole Status View as it is, with the
\* status of every name whether or not the registry holds the name, and
\* leaves the mutex alone; no step that changes the registry changes the
\* Status View.
C11_ListStatusUnfiltered ==
    [][/\ \A p \in Procs :
             listStatusObjects(p)
             => /\ resp'[p].code = StatusOK
                /\ \A n \in Names : resp'[p].body.statuses[n] = statusView[n]
                /\ lock' = lock
       /\ (objects' # objects \/ configVersion' # configVersion)
          => statusView' = statusView]_vars

\* a status is listed for a name the registry does not hold, while another
\* request holds the mutex
C11_Witness ==
    \E p \in Procs, n \in Names :
        /\ op[p] = "listStatusObjects" /\ pc[p] = "done"
        /\ n \notin StoredNames(objects)
        /\ resp[p].body.statuses[n] \in StatusValues
        /\ lock \in Procs \ {p}

\* the steps of the four lock-free handlers
ReaderStep(p) ==
    \/ \E n \in Names : getObject(p, n)
    \/ listObjects(p)
    \/ \E n \in Names : getStatusCheck(p, n)
    \/ getStatusFetch(p)
    \/ listStatusObjects(p)

Readers == {"getObject", "listObjects", "getStatusObject", "listStatusObjects"}

\* C12: no step of getObject, listObjects, getStatusObject or
\* listStatusObjects changes the mutex, objects or configVersion, and none
\* waits for the mutex: whoever holds it, each of them can be started by a
\* free goroutine and a started getStatusObject can finish.
C12_ReadersLockFree ==
    [][/\ \A p \in Procs :
             ReaderStep(p) => UNCHANGED <<objects, configVersion, lock>>
       /\ \A p \in Procs :
             op[p] \in Readers => lock # p
       /\ \A p \in Procs :
             pc[p] \in {"idle", "done"} /\ started < MaxRequests
             => /\ \A n \in Names : ENABLED getObject(p, n)
                /\ ENABLED listObjects(p)
                /\ \A n \in Names : ENABLED getStatusCheck(p, n)
                /\ ENABLED listStatusObjects(p)
       /\ \A p \in Procs :
             pc[p] = "statusFetch" => ENABLED getStatusFetch(p)]_vars

\* the get found a name that was absent when the create, still holding the
\* mutex, took it
C12_Witness ==
    \E p, q \in Procs :
        /\ lock = q /\ op[q] = "createObject" /\ pc[q] = "bump"
        /\ spec[q].name \notin StoredNames(snap[q].objects)
        /\ op[p] = "getObject" /\ pc[p] = "done"
        /\ name[p] = spec[q].name /\ resp[p].code = StatusOK

\* C13: on a server that starts empty, create svc1 (Pipeline) answers 201
\* with version header 1; get svc1 answers the spec created; update svc1
\* (Pipeline, other data) answers 200 with version header 2; update svc1
\* (Other) answers 400 "different kinds" with the version still 2; delete
\* svc1 answers 200 with version header 3; get svc1 answers 404.
C13_EndToEnd ==
    [][/\ \A p \in Procs :
             createUnlock(p)
             => /\ Pos = 1
                /\ resp[p].code = StatusCreated /\ resp[p].version = <<1>>
                /\ resp[p].location = <<ObjectPrefix, 1>>
                /\ configVersion = 1
       /\ \A p \in Procs, n \in Names :
             getObject(p, n)
             => IF Pos = 1
                THEN /\ resp'[p].code = StatusOK
                     /\ Lines(resp'[p].body.yaml) = Lines(Script[1].body.doc)
                ELSE /\ Pos = 5
                     /\ resp'[p].code = StatusNotFound
                     /\ configVersion = 3 /\ objects = {}
       /\ \A p \in Procs :
             updateUnlock(p)
             => IF Pos = 3
                THEN /\ resp[p].code = StatusOK /\ resp[p].version = <<2>>
                     /\ configVersion = 2
                     /\ Lines(_getObject(1).yamlConfig) = Lines(Script[3].body.doc)
                ELSE /\ Pos = 4
                     /\ resp[p].code = StatusBadRequest
                     /\ resp[p].body = [error |-> "different kinds"]
                     /\ resp[p].version = <<>>
                     /\ configVersion = 2
                     /\ Lines(_getObject(1).yamlConfig) = Lines(Script[3].body.doc)
       /\ \A p \in Procs :
             deleteUnlock(p)
             => /\ Pos = 5
                /\ resp[p].code = StatusOK /\ resp[p].version = <<3>>
                /\ configVersion = 3]_vars

\* the script has run to its end; one goroutine served the delete and the
\* other the last get
C13_Witness ==
    \E p, q \in Procs :
        /\ Pos = Len(Script) /\ Quiet
        /\ op[p] = "deleteObject" /\ resp[p].version = <<3>>
        /\ op[q] = "getObject" /\ resp[q].code = StatusNotFound
        /\ configVersion = 3 /\ objects = {}

\* whether the registry shows the mutation of the request holding the mutex
Applied(p) ==
    CASE op[p] = "createObject" -> spec[p] \in objects
      [] op[p] = "updateObject" -> spec[p] \in objects
      [] op[p] = "deleteObject" -> name[p] \notin StoredNames(objects)

\* C14: a mutating request is between its existence check and its return
\* only while it holds the mutex; up to its put or delete the registry and
\* configVersion are those it found when it took the mutex; the put or
\* delete comes before the bump, so whenever configVersion carries the
\* request's increment the registry shows its mutation; configVersion never
\* runs ahead of the mutations applied.
C14_MutationBeforeVersion ==
    /\ configVersion <= accepted
    /\ \A p \in Procs :
          op[p] \in Mutating /\ pc[p] \in {"check", "put", "delete", "bump", "unlock"}
          => /\ lock = p
             /\ pc[p] \in {"check", "put", "delete"}
                => objects = snap[p].objects /\ configVersion = snap[p].version
             /\ pc[p] = "bump"
                => Applied(p) /\ configVersion = snap[p].version
             /\ pc[p] = "unlock" /\ ~Failed(resp[p])
                => Applied(p) /\ configVersion = snap[p].version + 1
             /\ configVersion # snap[p].version => Applied(p)

\* the put of an update is in the registry, the version not yet bumped
C14_Witness ==
    \E p \in Procs :
        /\ op[p] = "updateObject" /\ pc[p] = "bump"
        /\ spec[p] \in objects /\ spec[p] \notin snap[p].objects
        /\ configVersion = snap[p].version

\* a body that cannot be read or has no name or no kind, or whose name is not
\* the non-empty name of the path
Rejected(b, n) ==
    \/ b.readErr
    \/ ~\E l \in Lines(b.doc) : l[1] = "name"
    \/ ~\E l \in Lines(b.doc) : l[1] = "kind"
    \/ n # NoName /\ DocVal(b.doc, "name") # n

\* the bodies turned away for each path name (NoName: no name in the path)
RejectedBodies ==
    [n \in Names \cup {NoName} |-> {b \in Bodies : Rejected(b, n)}]

ReadOutcome(p, b, n) ==
    IF b \in RejectedBodies[n]
    THEN /\ pc'[p] = "done"
         /\ resp'[p].code = StatusBadRequest
         /\ lock # p
         /\ UNCHANGED <<objects, configVersion, lock, snap>>
    ELSE /\ pc'[p] = "lock"
         /\ resp'[p] = NoResp
         /\ n # NoName => spec'[p].name = n

\* C15: a createObject or updateObject whose body cannot be parsed, or
\* whose non-empty path name is not the name of the parsed spec, answers 400
\* in its first step, without the mutex and with the registry untouched; so
\* an updateObject that reaches its put stores its Spec under the name of
\* its path and adds no name to the registry.
C15_BadRequestBeforeLock ==
    [][/\ \A p \in Procs :
             started' # started /\ pc[p] \in {"idle", "done"}
             /\ op'[p] = "createObject"
             => \A b \in Bodies :
                   ReadOutcome(p, b, NoName) \/ ~createRead(p, b)
       /\ \A p \in Procs, n \in Names :
             started' # started /\ pc[p] \in {"idle", "done"}
             /\ op'[p] = "updateObject" /\ name'[p] = n
             => \A b \in Bodies :
                   ReadOutcome(p, b, n) \/ ~updateRead(p, n, b)
       /\ \A p \in Procs :
             updatePut(p)
             => /\ spec[p].name = name[p]
                /\ _getObject(name[p])' = spec[p]
                /\ StoredNames(objects') = StoredNames(objects)]_vars

\* an update is turned away for its name while another request holds the
\* mutex
C15_Witness ==
    \E p \in Procs :
        /\ op[p] = "updateObject" /\ pc[p] = "done"
        /\ resp[p].body = [error |-> "inconsistent name in url and spec "]
        /\ lock \in Procs \ {p}
        /\ objects # {}

\* the error bodies HandleAPIError writes inside the critical sections
LockedErrors ==
    {[error |-> "conflict name"], [error |-> "not found"],
     [error |-> "different kinds"]}

\* C16 (as claimed): a request that holds the mutex has written no response
\* body, error bodies included.
C16_NoResponseUnderLock ==
    \A p \in Procs : lock = p => resp[p].body = NoResp.body

\* C16 (amended): a request reads its body before it takes the mutex and
\* holds the mutex only between its check and its return; the only response
\* body written under the mutex is the error body of a Conflict, NotFound or
\* kind mismatch, written after the failed check and before the deferred
\* unlock; every other body is written by a request that does not hold the
\* mutex.
C16_OnlyErrorsUnderLock ==
    \A p \in Procs :
        /\ pc[p] \in {"idle", "lock", "done", "statusFetch"} => lock # p
        /\ lock = p
           => /\ op[p] \in Mutating
              /\ resp[p].body \in LockedErrors \cup {NoResp.body}
              /\ resp[p].body \in LockedErrors
                 => pc[p] = "unlock" /\ resp[p].version = <<>>
        /\ resp[p].body \notin LockedErrors \cup {NoResp.body} => lock # p

C16_Witness ==
    \E p \in Procs :
        /\ lock = p /\ op[p] = "createObject" /\ pc[p] = "unlock"
        /\ resp[p].body = [error |-> "conflict name"]

InCritical(p) == pc[p] \in {"check", "put", "delete", "bump", "unlock"}

\* C17: the mutex is held by exactly the request that is between its check
\* and its return, so by one request at most, and by none that has
\* returned, whether it was accepted or failed with Conflict, NotFound or a
\* kind mismatch; under fair scheduling a request waiting for the mutex
\* gets it and every request returns.
C17_LockReleased ==
    /\ [](\A p \in Procs : InCritical(p) <=> lock = p)
    /\ [](Cardinality({p \in Procs : InCritical(p)}) <= 1)
    /\ \A p \in Procs : (pc[p] = "lock") ~> (lock = p)
    /\ \A p \in Procs : (pc[p] # "idle") ~> (pc[p] = "done")

\* one request waits for the mutex while the holder is on an error path
C17_Witness ==
    \E p, q \in Procs :
        /\ pc[p] = "lock"
        /\ lock = q /\ pc[q] = "unlock" /\ Failed(resp[q])

\* C18: no step changes the kind stored under a name that is present before
\* and after it; a name leaves the registry only by the delete of a
\* deleteObject and enters it only by the put of a createObject, and a
\* createObject that finds its name absent goes on to put whatever kind it
\* carries.
C18_KindFixedWhilePresent ==
    [][/\ \A n \in Names :
             n \in StoredNames(objects) /\ n \in StoredNames(objects')
             => _getObject(n)'.kind = _getObject(n).kind
       /\ \A n \in Names :
             n \in StoredNames(objects) /\ n \notin StoredNames(objects')
             => \E p \in Procs : deleteDelete(p) /\ name[p] = n
       /\ \A n \in Names :
             n \notin StoredNames(objects) /\ n \in StoredNames(objects')
             => \E p \in Procs : createPut(p) /\ spec[p].name = n
       /\ \A p \in Procs :
             createCheck(p) /\ spec[p].name \notin StoredNames(objects)
             => pc'[p] = "put" /\ resp'[p] = resp[p]]_vars

\* the third accepted mutation is a create of the name the second one
\* deleted
C18_Witness ==
    \E p, q \in Procs :
        /\ op[q] = "deleteObject" /\ pc[q] = "done" /\ resp[q].version = <<2>>
        /\ op[p] = "createObject" /\ pc[p] = "unlock"
        /\ resp[p].code = StatusCreated /\ resp[p].version = <<3>>
        /\ spec[p].name = name[q] /\ spec[p].kind = "Other"
        /\ objects = {spec[p]}

\* an updateObject that passed its checks and holds the lock
AcceptedUpdate(q, n) ==
    /\ op[q] = "updateObject" /\ lock = q /\ pc[q] \in {"put", "bump", "unlock"}
    /\ spec[q].name = n
    /\ n \in StoredNames(snap[q].objects)
    /\ Found(q, n).kind = spec[q].kind

\* C19: a getObject of a name whose accepted updateObject holds the lock is
\* not held back by the lock and answers 200 with the whole yaml of the Spec
\* stored before the update until the put, and with the whole yaml of the
\* submitted Spec from the put on; it never answers 404 and the registry
\* never lacks the name while the update holds the lock.
C19_GetDuringUpdate ==
    [][\A p, q \in Procs, n \in Names :
          AcceptedUpdate(q, n)
          => /\ n \in StoredNames(objects)
             /\ (pc[p] \in {"idle", "done"} /\ started < MaxRequests
                 => ENABLED getObject(p, n))
             /\ getObject(p, n)
                => /\ resp'[p].code = StatusOK
                   /\ resp'[p].body =
                         IF pc[q] = "put"
                         THEN [yaml |-> Found(q, n).yamlConfig]
                         ELSE [yaml |-> spec[q].yamlConfig]
                   /\ UNCHANGED <<objects, configVersion, lock>>]_vars

\* a get answered with the submitted yaml, which differs from the stored
\* one, while the update still holds the lock
C19_Witness ==
    \E p, q \in Procs :
        /\ AcceptedUpdate(q, spec[q].name) /\ pc[q] = "bump"
        /\ Found(q, spec[q].name).yamlConfig # spec[q].yamlConfig
        /\ op[p] = "getObject" /\ pc[p] = "done" /\ name[p] = spec[q].name
        /\ resp[p].code = StatusOK
        /\ resp[p].body = [yaml |-> spec[q].yamlConfig]

====
